---- MODULE Spec2Model ----
(***************************************************************************)
(* Posts API of the MERN testing demo: the Express routes of               *)
(* server/src/routes/posts.js, the authentication gate of                  *)
(* server/src/middleware/auth.js, the controllers of                       *)
(* server/src/controllers/postsController.js, the Post schema of           *)
(* server/src/models/Post.js, the error middleware of server/src/app.js    *)
(* and the slug utility of server/src/utils/helpers.js.                    *)
(*                                                                         *)
(* Strings that the code inspects character by character (titles, slugs)   *)
(* are sequences of one-character strings; other strings are TLA+ strings. *)
(*                                                                         *)
(* connected is the state of the mongoose connection: while it is FALSE a  *)
(* store operation that has to reach the database rejects.                 *)
(*                                                                         *)
(* The client side is the API wrapper of client/src/utils/api.js           *)
(* (variable browser) and the error boundary of                            *)
(* client/src/components/ErrorBoundary.jsx (variable boundary).            *)
(***************************************************************************)
EXTENDS Integers, Sequences, FiniteSets, TLC

VARIABLES posts, nextId, req, actor, connected, fnIn, fnOut, browser, boundary

vars == <<posts, nextId, req, actor, connected, fnIn, fnOut, browser, boundary>>

(***************************************************************************)
(* Bounds                                                                  *)
(***************************************************************************)
\* number of posts the store ever creates (identifiers are 1..MaxId)
MaxId == 2
\* longest title tried on the slug functions
MaxLen == 3
\* number of posts the store holds when it is listed page by page
MaxPosts == 11

(***************************************************************************)
(* Characters and the String methods the slug code uses                    *)
(***************************************************************************)
Alphabet == {"a", "B", "1", " ", "-", "_", "!"}

\* \s of the regular expressions, and what String.prototype.trim removes
IsSpace(c) == c = " "

\* \w of the regular expressions: [A-Za-z0-9_]
IsWordChar(c) == c \in {"a", "b", "A", "B", "1", "_"}

LowerChar(c) == IF c = "A" THEN "a" ELSE IF c = "B" THEN "b" ELSE c

\* String.prototype.toLowerCase
toLowerCase(s) == [i \in 1..Len(s) |-> LowerChar(s[i])]

\* the string from its first character that is not a space
TrimLeft(s) ==
  IF \A i \in 1..Len(s) : IsSpace(s[i]) THEN <<>>
  ELSE LET first == CHOOSE i \in 1..Len(s) :
                      ~IsSpace(s[i]) /\ \A j \in 1..(i - 1) : IsSpace(s[j])
       IN SubSeq(s, first, Len(s))

\* the string up to its last character that is not a space
TrimRight(s) ==
  IF \A i \in 1..Len(s) : IsSpace(s[i]) THEN <<>>
  ELSE LET last == CHOOSE i \in 1..Len(s) :
                     ~IsSpace(s[i]) /\ \A j \in (i + 1)..Len(s) : IsSpace(s[j])
       IN SubSeq(s, 1, last)

\* String.prototype.trim
trim(s) == TrimRight(TrimLeft(s))

KeptBySpecialFilter(c) == IsWordChar(c) \/ IsSpace(c) \/ c = "-"

\* .replace(/[^\w\s-]/g, '')
RemoveSpecial(s) == SelectSeq(s, KeptBySpecialFilter)

\* a character a replace has taken out
Kept(c) == c # ""

\* .replace(/\s+/g, '-'): the first space of a run becomes the hyphen, the
\* others go
SpacesToHyphen(s) ==
  SelectSeq([i \in 1..Len(s) |->
               IF ~IsSpace(s[i]) THEN s[i]
               ELSE IF i > 1 /\ IsSpace(s[i - 1]) THEN "" ELSE "-"],
            Kept)

\* .replace(/-+/g, '-'): the first hyphen of a run stays, the others go
CollapseHyphens(s) ==
  SelectSeq([i \in 1..Len(s) |->
               IF s[i] = "-" /\ i > 1 /\ s[i - 1] = "-" THEN "" ELSE s[i]],
            Kept)

\* the code units of the characters used
CharCode(c) ==
  CASE c = " " -> 32 [] c = "!" -> 33 [] c = "-" -> 45 [] c = "1" -> 49
    [] c = "A" -> 65 [] c = "B" -> 66 [] c = "_" -> 95 [] c = "a" -> 97
    [] c = "b" -> 98 [] OTHER -> 63

\* the store's order on strings: code unit by code unit, a prefix first
RECURSIVE LexLess(_, _)
LexLess(a, b) ==
  IF b = <<>> THEN FALSE
  ELSE IF a = <<>> THEN TRUE
  ELSE IF Head(a) # Head(b) THEN CharCode(Head(a)) < CharCode(Head(b))
  ELSE LexLess(Tail(a), Tail(b))

(***************************************************************************)
(* server/src/utils/helpers.js                                             *)
(***************************************************************************)
generateSlug(title) ==
  IF title = <<>> THEN <<>>
  ELSE CollapseHyphens(SpacesToHyphen(RemoveSpecial(trim(toLowerCase(title)))))

(***************************************************************************)
(* Values                                                                  *)
(***************************************************************************)
Users == {"u1", "u2"}

\* identifiers of categories: like the users', well-formed ObjectIds
CategoryIds == {"cat1", "cat2"}

\* a value of an ObjectId path (author, category) that mongoose can cast
CastsToObjectId(v) == v \in Users \cup CategoryIds

NoPost   == [absent |-> TRUE]
NoUser   == [anonymous |-> TRUE]
NoErr    == [none |-> TRUE]
NoBody   == [nothing |-> TRUE]
NullBody == [null |-> TRUE]
NoParam  == [kind |-> "none"]
NoHeader == [scheme |-> "none"]
EmptyBody == [x \in {} |-> TRUE]

\* an identifier in a URL: a 24-digit hex string (numbered n) or any other text
OidParam(n)  == [kind |-> "oid", n |-> n]
TextParam(t) == [kind |-> "text", t |-> t]
SlugParam(v) == [kind |-> "slug", v |-> v]

Has(b, f) == f \in DOMAIN b

(***************************************************************************)
(* server/src/utils/helpers.js: calculateReadingTime                        *)
(***************************************************************************)
\* content.trim().split(/\s+/).length for trimmed text t: one more than the
\* runs of whitespace in it (the empty string splits into one empty string)
SplitLength(t) ==
  1 + Cardinality({i \in 2..Len(t) : IsSpace(t[i]) /\ ~IsSpace(t[i - 1])})

\* Math.ceil(a / b) for a >= 0, b >= 1
Ceil(a, b) == (a + b - 1) \div b

DefaultWordsPerMinute == 200

\* args.text is the content; args.wordsPerMinute is absent when the caller
\* leaves it to the default
calculateReadingTime(args) ==
  LET wordsPerMinute == IF Has(args, "wordsPerMinute") THEN args.wordsPerMinute
                        ELSE DefaultWordsPerMinute
  IN IF args.text = <<>> THEN 0
     ELSE Ceil(SplitLength(trim(args.text)), wordsPerMinute)

(***************************************************************************)
(* server/src/utils/auth.js, jsonwebtoken                                  *)
(***************************************************************************)
\* generateToken: the payload a signed token carries
TokenPayload(u) == [id |-> u]

Token(kind, u) == [kind |-> kind, id |-> u]

\* a verification that does not look at the expiry
JwtVerify_IgnoresExpiry(token) ==
  CASE token.kind \in {"valid", "expired"} ->
         [ok |-> TRUE, payload |-> TokenPayload(token.id)]
    [] OTHER -> [ok |-> FALSE, name |-> "JsonWebTokenError"]

\* jwt.verify(token, JWT_SECRET): the payload, or a thrown error (a token
\* signed with another secret, malformed or empty is a JsonWebTokenError)
JwtVerify(token) ==
  CASE token.kind = "valid"   -> [ok |-> TRUE, payload |-> TokenPayload(token.id)]
    [] token.kind = "expired" -> [ok |-> FALSE, name |-> "TokenExpiredError"]
    [] OTHER                  -> [ok |-> FALSE, name |-> "JsonWebTokenError"]

\* the error jwt.verify throws, by what is wrong with the token
JwtError(token) ==
  CASE token.kind = "expired"   -> [name |-> "TokenExpiredError", message |-> "jwt expired"]
    [] token.kind = "badsig"    -> [name |-> "JsonWebTokenError", message |-> "invalid signature"]
    [] token.kind = "malformed" -> [name |-> "JsonWebTokenError", message |-> "jwt malformed"]
    [] token.kind = "empty"     -> [name |-> "JsonWebTokenError",
                                    message |-> "jwt must be provided"]
    [] OTHER                    -> [name |-> "JsonWebTokenError", message |-> "invalid token"]

\* verifyToken(token) of utils/auth.js: the payload, or the error it throws
\* from its catch block
verifyTokenUtil(token) ==
  IF JwtVerify(token).ok
  THEN [ok |-> TRUE, payload |-> JwtVerify(token).payload]
  ELSE [ok |-> FALSE, error |-> [name |-> "Error", message |-> "Invalid token"]]

(***************************************************************************)
(* server/src/middleware/auth.js                                           *)
(***************************************************************************)
\* the check without its startsWith half
NoBearer_AnyScheme(header) == header.scheme = "none"

\* A header is its scheme, the number of spaces after it (one unless the gap
\* field says otherwise) and the token text that follows.
Gap(header) == IF Has(header, "gap") THEN header.gap ELSE 1

\* !authHeader || !authHeader.startsWith('Bearer ')
NoBearer(header) == header.scheme # "Bearer" \/ Gap(header) = 0

\* authHeader.split(' ')[1]: what stands between the first space and the
\* second, the empty string when a second space follows the first at once
ExtractToken(header) ==
  IF Gap(header) > 1 THEN Token("empty", "") ELSE header.token

verifyToken(header) ==
  IF NoBearer(header)
  THEN [next |-> FALSE, user |-> NoUser, status |-> 401,
        body |-> [error |-> "No token provided"]]
  ELSE IF JwtVerify(ExtractToken(header)).ok
  THEN [next |-> TRUE, user |-> JwtVerify(ExtractToken(header)).payload, status |-> 0,
        body |-> NoBody]
  ELSE [next |-> FALSE, user |-> NoUser, status |-> 401,
        body |-> [error |-> "Invalid or expired token"]]

(***************************************************************************)
(* server/src/app.js: the error middleware mounted after the routes        *)
(***************************************************************************)
appErrorMiddleware(err) ==
  [status |-> IF Has(err, "statusCode") /\ err.statusCode # 0 THEN err.statusCode
              ELSE 500,
   body   |-> [success |-> FALSE,
               error   |-> IF Has(err, "message") /\ err.message # ""
                           THEN err.message ELSE "Internal Server Error"]]

(***************************************************************************)
(* server/src/models/Post.js and the mongoose operations on it             *)
(***************************************************************************)
MaxTitleLength == 200

StatusEnum == {"draft", "published"}

PostFields == {"title", "content", "slug", "author", "category", "status", "views"}

\* the schema's setters: title is trimmed, slug is lower-cased
SchemaSet(f, v) ==
  CASE f = "title" -> trim(v)
    [] f = "slug"  -> toLowerCase(v)
    [] OTHER       -> v

\* new Post(input): setters and defaults; an unset string path reads as empty
NewDocument(input) ==
  [title    |-> IF Has(input, "title") THEN SchemaSet("title", input.title) ELSE <<>>,
   content  |-> IF Has(input, "content") THEN input.content ELSE "",
   slug     |-> IF Has(input, "slug") THEN SchemaSet("slug", input.slug) ELSE <<>>,
   author   |-> IF Has(input, "author") THEN input.author ELSE "none",
   category |-> IF Has(input, "category") THEN input.category ELSE "none",
   status   |-> IF Has(input, "status") THEN input.status ELSE "draft",
   views    |-> IF Has(input, "views") THEN input.views ELSE 0]

\* the title path without its maxlength
PathErrors_NoMaxlength(f, v) ==
  CASE f = "title" -> IF v = <<>> THEN <<"title: Title is required">> ELSE <<>>
    [] f = "content" -> IF v = "" THEN <<"content: Content is required">> ELSE <<>>
    [] f = "author"  -> IF v = "none" THEN <<"author: Author is required">> ELSE <<>>
    [] f = "category" ->
         IF v = "none" \/ CastsToObjectId(v) THEN <<>>
         ELSE <<"category: Cast to ObjectId failed for value " \o v
                  \o " at path category">>
    [] f = "status"  ->
         IF v \in StatusEnum THEN <<>>
         ELSE <<"status: " \o v \o " is not a valid enum value for path status.">>
    [] OTHER -> <<>>

\* the validators of one path, as "path: message" (empty when the value passes)
PathErrors(f, v) ==
  CASE f = "title" ->
         IF v = <<>> THEN <<"title: Title is required">>
         ELSE IF Len(v) > MaxTitleLength
              THEN <<"title: Title cannot exceed 200 characters">>
              ELSE <<>>
    [] f = "content" -> IF v = "" THEN <<"content: Content is required">> ELSE <<>>
    [] f = "author"  -> IF v = "none" THEN <<"author: Author is required">> ELSE <<>>
    [] f = "category" ->
         IF v = "none" \/ CastsToObjectId(v) THEN <<>>
         ELSE <<"category: Cast to ObjectId failed for value " \o v
                  \o " at path category">>
    [] f = "status"  ->
         IF v \in StatusEnum THEN <<>>
         ELSE <<"status: " \o v \o " is not a valid enum value for path status.">>
    [] OTHER -> <<>>

RECURSIVE JoinMessages(_)
JoinMessages(msgs) ==
  IF msgs = <<>> THEN ""
  ELSE IF Len(msgs) = 1 THEN msgs[1]
  ELSE msgs[1] \o ", " \o JoinMessages(Tail(msgs))

ValidationError(prefix, msgs) ==
  [name |-> "ValidationError", message |-> prefix \o JoinMessages(msgs)]

\* doc.validate(): every path of the document
DocumentErrors(doc) ==
  PathErrors("category", doc.category)
    \o PathErrors("title", doc.title) \o PathErrors("content", doc.content)
    \o PathErrors("author", doc.author) \o PathErrors("status", doc.status)

\* the hook without its last replace
preSave_NoCollapse(doc) ==
  IF doc.slug = <<>> /\ doc.title # <<>>
  THEN [doc EXCEPT !.slug =
          SchemaSet("slug", SpacesToHyphen(RemoveSpecial(trim(toLowerCase(doc.title)))))]
  ELSE doc

\* postSchema.pre('save')
preSave(doc) ==
  IF doc.slug = <<>> /\ doc.title # <<>>
  THEN [doc EXCEPT !.slug =
          SchemaSet("slug",
            CollapseHyphens(SpacesToHyphen(RemoveSpecial(trim(toLowerCase(doc.title))))))]
  ELSE doc

\* a slug path without unique: true
SlugConflict_NoIndex(store, id, slug) == FALSE

\* the unique index on slug: another stored post already holds this slug
SlugConflict(store, id, slug) ==
  \E j \in DOMAIN store : j # id /\ store[j] # NoPost /\ store[j].slug = slug

\* the error of an operation that cannot reach the database
StoreUnavailable ==
  [name |-> "MongooseError",
   message |-> "Operation buffering timed out after 10000ms"]

DuplicateKeyError(slug) ==
  [name |-> "MongoServerError", code |-> 11000, keyValue |-> [slug |-> slug],
   message |-> "E11000 duplicate key error collection: posts index: slug_1"]

\* Post.create(input): validate, pre-save hook, insert under the unique index.
\* id is the fresh _id of the new document.
PostCreate(store, id, input) ==
  LET doc   == NewDocument(input)
      errs  == DocumentErrors(doc)
      saved == preSave(doc)
  IN IF errs # <<>>
     THEN [ok |-> FALSE, err |-> ValidationError("Post validation failed: ", errs),
           store |-> store, doc |-> NoPost]
     ELSE IF ~connected
     THEN [ok |-> FALSE, err |-> StoreUnavailable, store |-> store, doc |-> NoPost]
     ELSE IF SlugConflict(store, id, saved.slug)
     THEN [ok |-> FALSE, err |-> DuplicateKeyError(saved.slug),
           store |-> store, doc |-> NoPost]
     ELSE [ok |-> TRUE, err |-> NoErr,
           store |-> [store EXCEPT ![id] = saved], doc |-> saved]

\* the error mongoose raises when a value cannot be cast to an ObjectId
CastError ==
  [name |-> "CastError", message |-> "Cast to ObjectId failed at path _id for model Post"]

\* the same for a filter or an update on the category path
CategoryCastError ==
  [name |-> "CastError",
   message |-> "Cast to ObjectId failed at path category for model Post"]

\* a controller without the identifier check
IsValidObjectId_Unchecked(param) == TRUE

\* mongoose.Types.ObjectId.isValid(id)
IsValidObjectId(param) == param.kind = "oid"

\* Post.findById(id)
FindById(store, param) ==
  IF param.kind # "oid" THEN [ok |-> FALSE, err |-> CastError, doc |-> NoPost]
  ELSE IF ~connected THEN [ok |-> FALSE, err |-> StoreUnavailable, doc |-> NoPost]
  ELSE [ok |-> TRUE, err |-> NoErr,
        doc |-> IF param.n \in DOMAIN store THEN store[param.n] ELSE NoPost]

\* the update document mongoose sends: top-level keys that are schema paths
\* become $set entries, an explicit $set is kept (and wins), other keys are
\* dropped by strict mode; setters run on every value
UpdateSets(update) ==
  LET explicit == IF Has(update, "$set") THEN update["$set"] ELSE EmptyBody
      keys     == (DOMAIN update \cup DOMAIN explicit) \cap PostFields
  IN [k \in keys |->
        SchemaSet(k, IF k \in DOMAIN explicit THEN explicit[k] ELSE update[k])]

\* runValidators: the validators of the paths being set
UpdateErrors(sets) ==
  (IF Has(sets, "title") THEN PathErrors("title", sets.title) ELSE <<>>)
    \o (IF Has(sets, "content") THEN PathErrors("content", sets.content) ELSE <<>>)
    \o (IF Has(sets, "author") THEN PathErrors("author", sets.author) ELSE <<>>)
    \o (IF Has(sets, "status") THEN PathErrors("status", sets.status) ELSE <<>>)

\* Post.findByIdAndUpdate(id, update, { new: true, runValidators: true }):
\* no pre-save hook runs; a missing document gives null
FindByIdAndUpdate(store, n, update) ==
  LET sets == UpdateSets(update)
      errs == UpdateErrors(sets)
      old  == IF n \in DOMAIN store THEN store[n] ELSE NoPost
      new  == [f \in PostFields |-> IF f \in DOMAIN sets THEN sets[f] ELSE old[f]]
  IN IF Has(sets, "category") /\ ~CastsToObjectId(sets.category)
     THEN [ok |-> FALSE, err |-> CategoryCastError, store |-> store, doc |-> NoPost]
     ELSE IF errs # <<>>
     THEN [ok |-> FALSE, err |-> ValidationError("Validation failed: ", errs),
           store |-> store, doc |-> NoPost]
     ELSE IF ~connected
     THEN [ok |-> FALSE, err |-> StoreUnavailable, store |-> store, doc |-> NoPost]
     ELSE IF old = NoPost
     THEN [ok |-> TRUE, err |-> NoErr, store |-> store, doc |-> NoPost]
     ELSE IF SlugConflict(store, n, new.slug)
     THEN [ok |-> FALSE, err |-> DuplicateKeyError(new.slug),
           store |-> store, doc |-> NoPost]
     ELSE [ok |-> TRUE, err |-> NoErr,
           store |-> [store EXCEPT ![n] = new], doc |-> new]

\* a delete that removes nothing
FindByIdAndDelete_Keeps(store, n) == store

\* Post.findByIdAndDelete(id)
FindByIdAndDelete(store, n) ==
  IF n \in DOMAIN store THEN [store EXCEPT ![n] = NoPost] ELSE store

\* Post.findOne({ slug }): the posts the filter matches.  The filter value is
\* cast through the schema, so the slug path's setter lower-cases it.  A
\* parameter that is an identifier or some other text is the slug of no post:
\* the slugs stored here are sequences over Alphabet.
FindOneBySlug(store, param) ==
  IF param.kind # "slug" THEN {}
  ELSE {n \in DOMAIN store :
          store[n] # NoPost /\ store[n].slug = SchemaSet("slug", param.v)}

\* a stored document as it is serialised in a response
ToJson(n, doc) == [_id |-> n] @@ doc

\* the users the integration tests create
UserProfile(u) ==
  IF u = "u1" THEN [_id |-> u, username |-> "testuser", email |-> "test@example.com"]
  ELSE [_id |-> u, username |-> "anotheruser", email |-> "another@example.com"]

\* .populate('author', 'username email')
Populate(json) ==
  [f \in DOMAIN json |->
     IF f = "author"
     THEN (IF json.author \in Users THEN UserProfile(json.author) ELSE NullBody)
     ELSE json[f]]

(***************************************************************************)
(* server/src/middleware/errorHandler.js                                   *)
(* An error is a record of the properties it carries; a property it does   *)
(* not carry reads as undefined.  keyValue is an object of at most one key *)
(* and errors is the list of the sub-errors' messages, in the order        *)
(* Object.values gives them.                                               *)
(***************************************************************************)
\* new AppError(message, statusCode)
AppError(message, statusCode) ==
  [name |-> "Error", message |-> message, statusCode |-> statusCode,
   isOperational |-> TRUE]

ErrName(err) == IF Has(err, "name") THEN err.name ELSE "undefined"

\* err.statusCode || 500
StatusOr500(err) ==
  IF Has(err, "statusCode") /\ err.statusCode # 0 THEN err.statusCode ELSE 500

\* what JSON.stringify keeps of { success: false, error: message }: a message
\* that is undefined is dropped
Envelope(error) ==
  IF Has(error, "message") THEN [success |-> FALSE, error |-> error.message]
  ELSE [success |-> FALSE]

\* Object.keys(err.keyValue)[0], written into a template literal
FirstKey(keyValue) ==
  IF DOMAIN keyValue = {} THEN "undefined" ELSE CHOOSE k \in DOMAIN keyValue : TRUE

IsDuplicateKey(err) == Has(err, "code") /\ err.code = 11000

\* Object.keys(undefined) and Object.values(undefined) throw a TypeError
ThrowsInHandler(err) ==
  \/ IsDuplicateKey(err) /\ ~Has(err, "keyValue")
  \/ ErrName(err) = "ValidationError" /\ ~Has(err, "errors")

\* the chain with its cast branch answering 400
Normalize_CastAs400(err) ==
  LET e0 == [k \in DOMAIN err \ {"stack", "statusCode"} |-> err[k]]
              @@ [statusCode |-> StatusOr500(err)]
      e1 == IF ErrName(err) = "CastError" THEN AppError("Resource not found", 400) ELSE e0
      e2 == IF IsDuplicateKey(err) /\ Has(err, "keyValue")
            THEN AppError(FirstKey(err.keyValue) \o " already exists", 400) ELSE e1
      e3 == IF ErrName(err) = "ValidationError" /\ Has(err, "errors")
            THEN AppError("Validation failed: " \o JoinMessages(err.errors), 400) ELSE e2
      e4 == IF ErrName(err) = "JsonWebTokenError" THEN AppError("Invalid token", 401) ELSE e3
  IN IF ErrName(err) = "TokenExpiredError" THEN AppError("Token expired", 401) ELSE e4

\* the chain of ifs of lines 15-17 and 30-57: the error object the response
\* is built from (when no lookup throws on the way)
Normalize(err) ==
  LET e0 == [k \in DOMAIN err \ {"stack", "statusCode"} |-> err[k]]
              @@ [statusCode |-> StatusOr500(err)]
      e1 == IF ErrName(err) = "CastError" THEN AppError("Resource not found", 404) ELSE e0
      e2 == IF IsDuplicateKey(err) /\ Has(err, "keyValue")
            THEN AppError(FirstKey(err.keyValue) \o " already exists", 400) ELSE e1
      e3 == IF ErrName(err) = "ValidationError" /\ Has(err, "errors")
            THEN AppError("Validation failed: " \o JoinMessages(err.errors), 400) ELSE e2
      e4 == IF ErrName(err) = "JsonWebTokenError" THEN AppError("Invalid token", 401) ELSE e3
  IN IF ErrName(err) = "TokenExpiredError" THEN AppError("Token expired", 401) ELSE e4

\* the entry handed to logger.error: the message and status before the chain
\* of ifs runs
LogEntry(err, request) ==
  [kind |-> "log",
   message |-> IF Has(err, "message") THEN [is |-> err.message] ELSE [undefined |-> TRUE],
   statusCode |-> StatusOr500(err),
   url |-> request.originalUrl, method |-> request.method, ip |-> request.ip,
   user |-> IF request.user = NoUser THEN [undefined |-> TRUE]
            ELSE [is |-> request.user.id]]

\* res.status(...).json(...): stack and details are added in development
Response(err, env) ==
  [kind |-> "response", status |-> Normalize(err).statusCode,
   body |-> IF env = "development"
            THEN Envelope(Normalize(err))
                   @@ [stack |-> IF Has(err, "stack") THEN err.stack ELSE "undefined",
                       details |-> Normalize(err)]
            ELSE Envelope(Normalize(err))]

\* errorHandler(err, req, res, next): what it does, in order, and whether it
\* throws before it reaches the response
errorHandler(err, request, env) ==
  IF ThrowsInHandler(err)
  THEN [events |-> <<LogEntry(err, request)>>, thrown |-> TRUE]
  ELSE [events |-> <<LogEntry(err, request), Response(err, env)>>, thrown |-> FALSE]

(***************************************************************************)
(* server/src/controllers/postsController.js                               *)
(* A controller's outcome: the response it sends (or the error it forwards *)
(* with next(error), answered by the error middleware), the store it       *)
(* leaves, and whether it is suspended at its second store operation.      *)
(***************************************************************************)
Answer(status, body, store) ==
  [pending |-> FALSE, status |-> status, body |-> body, store |-> store,
   err |-> NoErr, found |-> NoPost, sent |-> 1, forwarded |-> 0]

\* next(error)
Forward(err, store) ==
  [pending |-> FALSE, status |-> appErrorMiddleware(err).status,
   body |-> appErrorMiddleware(err).body, store |-> store,
   err |-> err, found |-> NoPost, sent |-> 0, forwarded |-> 1]

Suspended(found, store) ==
  [pending |-> TRUE, status |-> 0, body |-> NoBody, store |-> store,
   err |-> NoErr, found |-> found, sent |-> 0, forwarded |-> 0]

\* a catch block whose res.status(400).json(...) is not returned from
CatchValidation_NoReturn(err, store) ==
  IF err.name = "ValidationError"
  THEN [Answer(400, [error |-> err.message], store) EXCEPT !.err = err, !.forwarded = 1]
  ELSE Forward(err, store)

\* the catch block of createPost and updatePost
CatchValidation(err, store) ==
  IF err.name = "ValidationError"
  THEN Answer(400, [error |-> err.message], store)
  ELSE Forward(err, store)

\* title === undefined in place of !title
FalsyTitle_UndefinedOnly(body) == ~Has(body, "title")

\* !title, !content: undefined and the empty string are falsy
FalsyTitle(body) == ~Has(body, "title") \/ body.title = <<>>
FalsyContent(body) == ~Has(body, "content") \/ body.content = ""

\* .sort(sort): the path sorted on and the direction
SortPath(sort) ==
  CASE sort \in {"createdAt", "-createdAt"} -> "createdAt"
    [] sort \in {"title", "-title"}         -> "title"
    [] OTHER                                -> "none"

SortDescending(sort) == sort \in {"-createdAt", "-title"}

\* post a is strictly before post b on the sorted path.  createdAt grows
\* with the _id: a later create has a later timestamp.
KeyLess(store, path, a, b) ==
  CASE path = "createdAt" -> a < b
    [] path = "title"     -> LexLess(store[a].title, store[b].title)
    [] OTHER              -> FALSE

\* posts with equal keys are left in insertion order
ComesFirst(store, sort, a, b) ==
  LET lt == KeyLess(store, SortPath(sort), a, b)
      gt == KeyLess(store, SortPath(sort), b, a)
  IN IF ~lt /\ ~gt THEN a < b
     ELSE IF SortDescending(sort) THEN gt ELSE lt

RECURSIVE Sorted(_, _, _)
Sorted(store, sort, S) ==
  IF S = {} THEN <<>>
  ELSE LET m == CHOOSE x \in S : \A y \in S \ {x} : ComesFirst(store, sort, x, y)
       IN <<m>> \o Sorted(store, sort, S \ {m})

\* .limit(n).skip(k): the store skips first; a limit of 0 means no limit
Slice(q, k, n) ==
  SubSeq(q, k + 1, IF n = 0 \/ k + n > Len(q) THEN Len(q) ELSE k + n)

\* Post.find(query): the filter on category is cast to an ObjectId
getPosts(store, query) ==
  LET category == IF Has(query, "category") THEN query.category ELSE ""
      page     == IF Has(query, "page") THEN query.page ELSE 1
      limit    == IF Has(query, "limit") THEN query.limit ELSE 10
      sort     == IF Has(query, "sort") THEN query.sort ELSE "-createdAt"
      skip     == (page - 1) * limit
      matching == {n \in DOMAIN store :
                     /\ store[n] # NoPost
                     /\ category # "" => store[n].category = category}
      ids      == Slice(Sorted(store, sort, matching), skip, limit)
  IN IF category # "" /\ ~CastsToObjectId(category)
     THEN Forward(CategoryCastError, store)
     ELSE IF ~connected THEN Forward(StoreUnavailable, store)
     ELSE Answer(200,
                 [list |-> [i \in 1..Len(ids) |->
                              Populate(ToJson(ids[i], store[ids[i]]))]],
                 store)

\* a get-by-id that counts the view
getPostById_CountsView(store, param) ==
  IF ~IsValidObjectId(param)
  THEN Answer(400, [error |-> "Invalid post ID format"], store)
  ELSE LET r == FindById(store, param)
       IN IF ~r.ok THEN Forward(r.err, store)
          ELSE IF r.doc = NoPost THEN Answer(404, [error |-> "Post not found"], store)
          ELSE Answer(200, Populate(ToJson(param.n, r.doc)),
                      [store EXCEPT ![param.n].views = @ + 1])

getPostById(store, param) ==
  IF ~IsValidObjectId(param)
  THEN Answer(400, [error |-> "Invalid post ID format"], store)
  ELSE LET r == FindById(store, param)
       IN IF ~r.ok THEN Forward(r.err, store)
          ELSE IF r.doc = NoPost THEN Answer(404, [error |-> "Post not found"], store)
          ELSE Answer(200, Populate(ToJson(param.n, r.doc)), store)

getPostBySlug(store, param) ==
  LET hits == FindOneBySlug(store, param)
  IN IF ~connected THEN Forward(StoreUnavailable, store)
     ELSE IF hits = {} THEN Answer(404, [error |-> "Post not found"], store)
     ELSE LET n == CHOOSE x \in hits : \A y \in hits : x <= y
          IN Answer(200, Populate(ToJson(n, store[n])), store)

\* Post.create({ ...req.body, author: req.user.id })
createInput_WholeBody(body, user) == [author |-> user.id] @@ body

\* the object createPost hands to Post.create
createInput(body, user) ==
  [f \in {"title", "content"} \cup ({"category"} \cap DOMAIN body) |-> body[f]]
    @@ [author |-> user.id]

createPost(store, id, user, body) ==
  IF FalsyTitle(body) THEN Answer(400, [error |-> "Title is required"], store)
  ELSE IF FalsyContent(body) THEN Answer(400, [error |-> "Content is required"], store)
  ELSE LET r == PostCreate(store, id, createInput(body, user))
       IN IF r.ok THEN Answer(201, ToJson(id, r.doc), r.store)
          ELSE CatchValidation(r.err, store)

\* a controller without the ownership check
IsAuthor_Anyone(post, user) == TRUE

\* post.author.toString() === req.user.id
IsAuthor(post, user) == post.author = user.id

\* updatePost and deletePost up to their ownership check
OwnerChecks(store, user, param, verb) ==
  IF ~IsValidObjectId(param)
  THEN Answer(400, [error |-> "Invalid post ID format"], store)
  ELSE LET r == FindById(store, param)
       IN IF ~r.ok THEN Forward(r.err, store)
          ELSE IF r.doc = NoPost THEN Answer(404, [error |-> "Post not found"], store)
          ELSE IF ~IsAuthor(r.doc, user)
          THEN [Answer(403, [error |-> "Not authorized to " \o verb \o " this post"],
                       store) EXCEPT !.found = r.doc]
          ELSE Suspended(r.doc, store)

\* delete req.body.author
StripAuthor(body) == [k \in DOMAIN body \ {"author"} |-> body[k]]

\* updatePost from its findByIdAndUpdate on
updatePostWrite(store, n, body) ==
  LET r == FindByIdAndUpdate(store, n, StripAuthor(body))
  IN IF r.ok
     THEN Answer(200, IF r.doc = NoPost THEN NullBody ELSE ToJson(n, r.doc), r.store)
     ELSE CatchValidation(r.err, store)

\* deletePost from its findByIdAndDelete on
deletePostWrite(store, n) ==
  IF ~connected THEN Forward(StoreUnavailable, store)
  ELSE Answer(200, [message |-> "Post deleted successfully"],
              FindByIdAndDelete(store, n))

(***************************************************************************)
(* Requests in flight.  Node runs a handler without interruption between   *)
(* two awaits, so a request is one step, except updatePost and deletePost, *)
(* which suspend between their findById and their write.                   *)
(***************************************************************************)
AllSlots == {1, 2}

IdleSlot ==
  [pc |-> "idle", method |-> "", route |-> "", param |-> NoParam,
   header |-> NoHeader, body |-> EmptyBody, query |-> EmptyBody,
   user |-> NoUser, invoked |-> FALSE, found |-> NoPost, err |-> NoErr,
   status |-> 0, resBody |-> NoBody, sent |-> 0, forwarded |-> 0]

NoResult == [fn |-> "none"]

\* server/src/routes/posts.js: verifyToken is mounted on POST, PUT and DELETE
Protected(method) == method \in {"POST", "PUT", "DELETE"}

\* a gate that lets a request through once some request has authenticated
Gate_RemembersCaller(method, header) ==
  IF ~Protected(method)
  THEN [next |-> TRUE, user |-> NoUser, status |-> 0, body |-> NoBody]
  ELSE IF verifyToken(header).next THEN verifyToken(header)
  ELSE IF \E t \in AllSlots : req[t].user # NoUser
  THEN [next |-> TRUE,
        user |-> req[CHOOSE t \in AllSlots : req[t].user # NoUser].user,
        status |-> 0, body |-> NoBody]
  ELSE verifyToken(header)

Gate(method, header) ==
  IF Protected(method) THEN verifyToken(header)
  ELSE [next |-> TRUE, user |-> NoUser, status |-> 0, body |-> NoBody]

\* what the gate leaves of a request it stops
Stopped(g, store) == Answer(g.status, g.body, store)

\* slot s takes a request through its route; out is the controller's outcome
Receive(s, method, route, param, header, body, query, g, out) ==
  /\ req[s].pc \in {"idle", "done"}
  /\ req' = [req EXCEPT ![s] =
       [pc |-> IF out.pending THEN "pending" ELSE "done",
        method |-> method, route |-> route, param |-> param,
        header |-> header, body |-> body, query |-> query,
        user |-> g.user, invoked |-> g.next, found |-> out.found,
        err |-> out.err, status |-> out.status, resBody |-> out.body,
        sent |-> out.sent, forwarded |-> out.forwarded]]
  /\ posts' = out.store
  /\ actor' = s

\* slot s resumes after its write
Resume(s, out) ==
  /\ req' = [req EXCEPT ![s].pc = "done", ![s].err = out.err,
                        ![s].status = out.status, ![s].resBody = out.body,
                        ![s].sent = @ + out.sent,
                        ![s].forwarded = @ + out.forwarded]
  /\ posts' = out.store
  /\ actor' = s

GetPosts(s, query) ==
  /\ Receive(s, "GET", "/", NoParam, NoHeader, EmptyBody, query,
             Gate("GET", NoHeader), getPosts(posts, query))
  /\ UNCHANGED <<nextId, connected, fnIn, fnOut, browser, boundary>>

GetPostById(s, param) ==
  /\ Receive(s, "GET", "/:id", param, NoHeader, EmptyBody, EmptyBody,
             Gate("GET", NoHeader), getPostById(posts, param))
  /\ UNCHANGED <<nextId, connected, fnIn, fnOut, browser, boundary>>

GetPostBySlug(s, param) ==
  /\ Receive(s, "GET", "/slug/:slug", param, NoHeader, EmptyBody, EmptyBody,
             Gate("GET", NoHeader), getPostBySlug(posts, param))
  /\ UNCHANGED <<nextId, connected, fnIn, fnOut, browser, boundary>>

\* server/src/routes/posts.js, the GET routes in the order they are declared;
\* path is the list of segments below /api/posts
MatchGet(path) ==
  IF path = <<>> THEN [route |-> "/", param |-> NoParam]
  ELSE IF Len(path) = 2 /\ path[1] = TextParam("slug")
  THEN [route |-> "/slug/:slug", param |-> path[2]]
  ELSE IF Len(path) = 1 THEN [route |-> "/:id", param |-> path[1]]
  ELSE [route |-> "none", param |-> NoParam]

\* no route matches: the request falls through the router and the error
\* middleware (no error was raised) to Express's own 404 page
NotRouted(s, method) ==
  /\ Receive(s, method, "none", NoParam, NoHeader, EmptyBody, EmptyBody,
             [next |-> FALSE, user |-> NoUser, status |-> 0, body |-> NoBody],
             Answer(404, [html |-> "Cannot " \o method], posts))
  /\ UNCHANGED <<nextId, connected, fnIn, fnOut, browser, boundary>>

\* GET /api/posts/<path>
GetPath(s, path) ==
  LET m == MatchGet(path)
  IN CASE m.route = "/"            -> GetPosts(s, EmptyBody)
       [] m.route = "/slug/:slug"  -> GetPostBySlug(s, m.param)
       [] m.route = "/:id"         -> GetPostById(s, m.param)
       [] OTHER                    -> NotRouted(s, "GET")

CreatePost(s, header, body) ==
  LET g   == Gate("POST", header)
      out == IF g.next THEN createPost(posts, nextId, g.user, body)
             ELSE Stopped(g, posts)
  IN /\ out.status = 201 => nextId \in DOMAIN posts
     /\ Receive(s, "POST", "/", NoParam, header, body, EmptyBody, g, out)
     /\ nextId' = IF out.status = 201 THEN nextId + 1 ELSE nextId
     /\ UNCHANGED <<connected, fnIn, fnOut, browser, boundary>>

UpdatePost(s, header, param, body) ==
  LET g   == Gate("PUT", header)
      out == IF g.next THEN OwnerChecks(posts, g.user, param, "update")
             ELSE Stopped(g, posts)
  IN /\ Receive(s, "PUT", "/:id", param, header, body, EmptyBody, g, out)
     /\ UNCHANGED <<nextId, connected, fnIn, fnOut, browser, boundary>>

UpdatePostWrite(s) ==
  /\ req[s].pc = "pending"
  /\ req[s].method = "PUT"
  /\ Resume(s, updatePostWrite(posts, req[s].param.n, req[s].body))
  /\ UNCHANGED <<nextId, connected, fnIn, fnOut, browser, boundary>>

DeletePost(s, header, param) ==
  LET g   == Gate("DELETE", header)
      out == IF g.next THEN OwnerChecks(posts, g.user, param, "delete")
             ELSE Stopped(g, posts)
  IN /\ Receive(s, "DELETE", "/:id", param, header, EmptyBody, EmptyBody, g, out)
     /\ UNCHANGED <<nextId, connected, fnIn, fnOut, browser, boundary>>

DeletePostWrite(s) ==
  /\ req[s].pc = "pending"
  /\ req[s].method = "DELETE"
  /\ Resume(s, deletePostWrite(posts, req[s].param.n))
  /\ UNCHANGED <<nextId, connected, fnIn, fnOut, browser, boundary>>

(***************************************************************************)
(* client/src/utils/api.js                                                 *)
(* browser.token is what localStorage.getItem('token') returns,            *)
(* browser.location is window.location.href, and browser.requests are the  *)
(* requests made through the wrapper, in the order they were sent.         *)
(***************************************************************************)
NoStoredToken == [null |-> TRUE]

NoAuthorization == [absent |-> TRUE]

InFlight == [settled |-> "no"]

NewBrowser == [token |-> NoStoredToken, location |-> "/", requests |-> <<>>]

\* if (token): null and the empty string are falsy
Truthy(token) == token # NoStoredToken /\ token.is # ""

\* the request interceptor: the Authorization header the request leaves with
requestInterceptor(token) ==
  IF Truthy(token) THEN [is |-> "Bearer " \o token.is] ELSE NoAuthorization

\* the success handler of the response interceptor
responseFulfilled(response, b) ==
  [token |-> b.token, location |-> b.location,
   outcome |-> [settled |-> "resolved", status |-> response.status, toast |-> ""]]

\* data.error of a response body: reading a property of null throws
ThrowsOnData(data) == data = NullBody

DataError(data) == IF Has(data, "error") THEN data.error ELSE ""

\* the toast of the switch of lines 54-74
ToastFor(status, data) ==
  CASE status = 400 -> IF DataError(data) # "" THEN DataError(data) ELSE "Bad request"
    [] status = 401 -> "Please login to continue"
    [] status = 403 -> "You don't have permission to perform this action"
    [] status = 404 -> "Resource not found"
    [] status = 500 -> "Server error. Please try again later"
    [] OTHER -> IF DataError(data) # "" THEN DataError(data) ELSE "Something went wrong"

\* the error handler that leaves the token where it is on a 401
responseRejected_Keeps401Token(error, b) ==
  IF Has(error, "response")
  THEN LET status == error.response.status
           data   == error.response.data
           early  == status \notin {401, 403, 404, 500} /\ ThrowsOnData(data)
       IN [token |-> b.token,
           location |-> IF status = 401 THEN "/login" ELSE b.location,
           outcome |-> [settled |-> "rejected", status |-> status,
                        with |-> IF ThrowsOnData(data) THEN "TypeError" ELSE "error",
                        toast |-> IF early THEN "" ELSE ToastFor(status, data)]]
  ELSE [token |-> b.token, location |-> b.location,
        outcome |-> [settled |-> "rejected", status |-> 0, with |-> "error",
                     toast |-> IF Has(error, "request")
                               THEN "Network error. Please check your connection"
                               ELSE "An unexpected error occurred"]]

\* the error handler of the response interceptor: what it leaves in local
\* storage and in the address bar, the toast it shows, and the rejection it
\* returns (the error it was given, or the TypeError of a body that is null:
\* thrown at data.error, before the toast in the 400 and default cases and
\* at the console.error of line 78 in the others)
responseRejected(error, b) ==
  IF Has(error, "response")
  THEN LET status == error.response.status
           data   == error.response.data
           early  == status \notin {401, 403, 404, 500} /\ ThrowsOnData(data)
       IN [token |-> IF status = 401 THEN NoStoredToken ELSE b.token,
           location |-> IF status = 401 THEN "/login" ELSE b.location,
           outcome |-> [settled |-> "rejected", status |-> status,
                        with |-> IF ThrowsOnData(data) THEN "TypeError" ELSE "error",
                        toast |-> IF early THEN "" ELSE ToastFor(status, data)]]
  ELSE [token |-> b.token, location |-> b.location,
        outcome |-> [settled |-> "rejected", status |-> 0, with |-> "error",
                     toast |-> IF Has(error, "request")
                               THEN "Network error. Please check your connection"
                               ELSE "An unexpected error occurred"]]

\* axios settles a response by its status (validateStatus: 2xx resolves)
IsSuccess(result) == Has(result, "response") /\ result.response.status \in 200..299

responseInterceptor(result, b) ==
  IF IsSuccess(result) THEN responseFulfilled(result.response, b)
  ELSE responseRejected(result, b)

server == <<posts, nextId, req, actor, connected, fnIn, fnOut>>

\* localStorage.setItem('token', t), by the application's login
StoreToken(t) ==
  /\ browser' = [browser EXCEPT !.token = [is |-> t]]
  /\ UNCHANGED <<server, boundary>>

\* api.get / api.post / ...: the request passes the request interceptor
SendRequest ==
  /\ browser' = [browser EXCEPT !.requests =
       Append(@, [authorization |-> requestInterceptor(browser.token),
                  sentFrom |-> browser.location, outcome |-> InFlight])]
  /\ UNCHANGED <<server, boundary>>

\* request i comes back (or fails) and passes the response interceptor
Settle(i, result) ==
  /\ i \in 1..Len(browser.requests)
  /\ browser.requests[i].outcome = InFlight
  /\ LET r == responseInterceptor(result, browser)
     IN browser' = [token |-> r.token, location |-> r.location,
                    requests |-> [browser.requests EXCEPT ![i].outcome = r.outcome]]
  /\ UNCHANGED <<server, boundary>>

(***************************************************************************)
(* client/src/components/ErrorBoundary.jsx                                 *)
(* boundary is one mounted instance of the component: its state, what it   *)
(* last rendered, the errors that left it upwards, and a count of the      *)
(* errors it has caught and of the pages it has been mounted on.           *)
(***************************************************************************)
NullValue == [null |-> TRUE]

InitialState == [hasError |-> FALSE, error |-> NullValue, errorInfo |-> NullValue]

\* error.toString()
ErrorToString(error) ==
  IF error.name = "" THEN error.message ELSE error.name \o ": " \o error.message

\* a value has a toString unless it is null (or an object made without one)
CanToString(value) == value # NullValue /\ Has(value, "message")

\* render() throws where it calls toString on an error that has none; the
\* guards of lines 52-53 skip the call for null
FallbackThrows(state, env) ==
  /\ state.hasError
  /\ env = "development"
  /\ state.error # NullValue
  /\ ~CanToString(state.error)

\* render(): the fallback, with the details block in development, or the
\* children
render(state, env) ==
  IF state.hasError
  THEN [view |-> "fallback",
        details |-> IF env = "development"
                    THEN [error |-> IF state.error = NullValue THEN ""
                                    ELSE ErrorToString(state.error),
                          stack |-> IF state.errorInfo = NullValue THEN ""
                                    ELSE state.errorInfo.componentStack]
                    ELSE NullValue]
  ELSE [view |-> "children"]

NewBoundary(env) ==
  [state |-> InitialState, rendered |-> render(InitialState, env), env |-> env,
   caught |-> 0, escaped |-> 0, page |-> 1]

\* static getDerivedStateFromError(error): the partial state React merges
getDerivedStateFromError(error) == [hasError |-> TRUE]

\* componentDidCatch(error, errorInfo): the partial state it sets
componentDidCatch(error, errorInfo) == [error |-> error, errorInfo |-> errorInfo]

\* a reset that leaves the error in place
handleReset_KeepsError == [hasError |-> FALSE]

\* handleReset: the partial state it sets
handleReset == [hasError |-> FALSE, error |-> NullValue, errorInfo |-> NullValue]

\* this.setState(partial)
SetState(state, partial) ==
  [k \in DOMAIN state |-> IF k \in DOMAIN partial THEN partial[k] ELSE state[k]]

(***************************************************************************)
(* Requests tried                                                          *)
(***************************************************************************)
Bearer(kind, u) == [scheme |-> "Bearer", token |-> Token(kind, u)]

\* headers that pass the gate, and headers that do not
CallerHeaders == {Bearer("valid", "u1"), Bearer("valid", "u2")}

StrangerHeaders ==
  {NoHeader, [scheme |-> "Basic", token |-> Token("valid", "u1")],
   Bearer("badsig", "u1"), Bearer("expired", "u1")}

Headers == CallerHeaders \cup StrangerHeaders

TitleOne   == <<"a", " ", "B">>
TitleTwo   == <<"a", "-", "B", "!">>
TitleThree == <<"B", "1">>
TitleBlank == <<" ">>

CreateBodies ==
  {[title |-> TitleOne, content |-> "c"],
   [title |-> TitleTwo, content |-> "c"],
   [title |-> TitleThree, content |-> "c", category |-> "cat1", author |-> "u2",
    status |-> "published", views |-> 7, slug |-> <<"x">>],
   [content |-> "c"],
   [title |-> <<>>, content |-> "c"],
   [title |-> TitleOne],
   [title |-> TitleOne, content |-> ""],
   EmptyBody,
   [title |-> TitleBlank, content |-> "c"]}

UpdateBodies ==
  {[title |-> TitleThree],
   [title |-> TitleOne, author |-> "u2"],
   "$set" :> [author |-> "u2"],
   [slug |-> <<"B", "1">>],
   [status |-> "archived"]}

\* the bodies sent along with a header that does not pass the gate
StrangerCreateBodies == {[title |-> TitleOne, content |-> "c"]}

StrangerUpdateBodies == {[title |-> TitleThree]}

IdParams == {TextParam("invalid-id-format")} \cup {OidParam(n) : n \in 1..MaxId}

SlugParams == {SlugParam(<<"a", "-", "b">>), SlugParam(<<"x">>)}

Queries == {EmptyBody, [category |-> "cat1"], [page |-> 2, limit |-> 1]}

Slots == {1}

(***************************************************************************)
(* The API, one request at a time                                          *)
(***************************************************************************)
Init ==
  /\ posts = [n \in 1..MaxId |-> NoPost]
  /\ nextId = 1
  /\ req = [s \in AllSlots |-> IdleSlot]
  /\ actor = 1
  /\ connected = TRUE
  /\ fnIn = <<>>
  /\ fnOut = NoResult
  /\ browser = NewBrowser
  /\ boundary = NewBoundary("test")

Next ==
  \E s \in Slots :
    \/ \E q \in Queries : GetPosts(s, q)
    \/ \E p \in IdParams : GetPostById(s, p)
    \/ \E p \in SlugParams : GetPostBySlug(s, p)
    \/ \E h \in CallerHeaders, b \in CreateBodies : CreatePost(s, h, b)
    \/ \E h \in StrangerHeaders, b \in StrangerCreateBodies : CreatePost(s, h, b)
    \/ \E h \in CallerHeaders, p \in IdParams, b \in UpdateBodies :
         UpdatePost(s, h, p, b)
    \/ \E h \in StrangerHeaders, p \in IdParams, b \in StrangerUpdateBodies :
         UpdatePost(s, h, p, b)
    \/ UpdatePostWrite(s)
    \/ \E h \in Headers, p \in IdParams : DeletePost(s, h, p)
    \/ DeletePostWrite(s)

Spec == Init /\ [][Next]_vars

TypeOK ==
  /\ DOMAIN posts \in {1..MaxId, 1..MaxPosts}
  /\ nextId \in 1..(Len(posts) + 1)
  /\ \A n \in DOMAIN posts : posts[n] # NoPost => DOMAIN posts[n] = PostFields
  /\ \A s \in AllSlots : req[s].pc \in {"idle", "pending", "done"}
  /\ actor \in AllSlots

(***************************************************************************)
(* The slug functions on every title up to MaxLen characters: the utility  *)
(* is called on the title, and the title is posted by an authenticated     *)
(* caller.                                                                 *)
(***************************************************************************)
TitlesUpTo(n) == UNION {[1..k -> Alphabet] : k \in 0..n}

SlugInit ==
  /\ posts = [n \in 1..MaxId |-> NoPost]
  /\ nextId = 1
  /\ req = [s \in AllSlots |-> IdleSlot]
  /\ actor = 1
  /\ connected = TRUE
  /\ fnIn \in TitlesUpTo(MaxLen)
  /\ fnOut = NoResult
  /\ browser = NewBrowser
  /\ boundary = NewBoundary("test")

CallGenerateSlug ==
  /\ fnOut = NoResult
  /\ fnOut' = [fn |-> "generateSlug", slug |-> generateSlug(fnIn)]
  /\ UNCHANGED <<posts, nextId, req, actor, connected, fnIn, browser, boundary>>

PostTitle ==
  /\ req[1].pc = "idle"
  /\ CreatePost(1, Bearer("valid", "u1"), [title |-> fnIn, content |-> "c"])

SlugNext == CallGenerateSlug \/ PostTitle

SlugSpec == SlugInit /\ [][SlugNext]_vars

(***************************************************************************)
(* The API with two requests in flight, by the posts' authors              *)
(***************************************************************************)
RaceSlots == {1, 2}

RaceCreateBodies ==
  {[title |-> TitleOne, content |-> "c"], [title |-> TitleThree, content |-> "c"]}

RaceUpdateBodies == {[slug |-> <<"B", "1">>], [title |-> TitleThree]}

RaceIdParams == {OidParam(n) : n \in 1..MaxId}

RaceNext ==
  \E s \in RaceSlots :
    \/ \E b \in RaceCreateBodies : CreatePost(s, Bearer("valid", "u1"), b)
    \/ \E p \in RaceIdParams, b \in RaceUpdateBodies :
         UpdatePost(s, Bearer("valid", "u1"), p, b)
    \/ UpdatePostWrite(s)
    \/ \E p \in RaceIdParams : DeletePost(s, Bearer("valid", "u1"), p)
    \/ DeletePostWrite(s)

RaceSpec == Init /\ [][RaceNext]_vars

(***************************************************************************)
(* The public GET routes by their URL paths, over a store that authors     *)
(* fill, edit and empty                                                    *)
(***************************************************************************)
ReadPaths ==
  {<<>>, <<TextParam("invalid-id-format")>>, <<TextParam("slug")>>,
   <<SlugParam(<<"a", "-", "b">>)>>,
   <<TextParam("slug"), SlugParam(<<"a", "-", "b">>)>>,
   <<TextParam("slug"), SlugParam(<<"A", "-", "B">>)>>,
   <<TextParam("slug"), SlugParam(<<"x">>)>>,
   <<TextParam("slug"), TextParam("slug")>>,
   <<TextParam("slug"), OidParam(1)>>,
   <<OidParam(1), TextParam("comments")>>}
    \cup {<<OidParam(n)>> : n \in 1..(MaxId + 1)}

ReadCreateBodies ==
  {[title |-> TitleOne, content |-> "c"], [title |-> TitleThree, content |-> "c"]}

ReadUpdateBodies == {[slug |-> <<"x">>, views |-> 7]}

ReadNext ==
  \E s \in Slots :
    \/ \E p \in ReadPaths : GetPath(s, p)
    \/ \E q \in Queries : GetPosts(s, q)
    \/ \E h \in CallerHeaders, b \in ReadCreateBodies : CreatePost(s, h, b)
    \/ \E h \in CallerHeaders, p \in RaceIdParams, b \in ReadUpdateBodies :
         UpdatePost(s, h, p, b)
    \/ UpdatePostWrite(s)
    \/ \E h \in CallerHeaders, p \in RaceIdParams : DeletePost(s, h, p)
    \/ DeletePostWrite(s)

ReadSpec == Init /\ [][ReadNext]_vars

(***************************************************************************)
(* The list read page by page: one client posts up to MaxPosts posts,      *)
(* naming them in turn, with or without a category, and the store is       *)
(* listed under filters, sorts, pages and limits                           *)
(***************************************************************************)
\* 'B1', 'a11', 'B111', ...: pairwise different, with pairwise different slugs
PaginationTitle(i) ==
  (IF i % 2 = 1 THEN <<"B">> ELSE <<"a">>) \o [k \in 1..i |-> "1"]

\* the first posts are posted both with and without a category
Categorised == 3

ListBodies(i) ==
  {[title |-> PaginationTitle(i), content |-> "c"]}
    \cup {[title |-> PaginationTitle(i), content |-> "c", category |-> "cat1"] :
            k \in {i} \cap 1..Categorised}

ListQueries ==
  {EmptyBody,
   [page |-> 1, limit |-> 10],
   [page |-> 2, limit |-> 10],
   [page |-> 3, limit |-> 10],
   [page |-> 2, limit |-> 3, sort |-> "createdAt"],
   [limit |-> 4, sort |-> "-title"],
   [limit |-> 0],
   [category |-> "cat1"],
   [category |-> "cat1", page |-> 2, limit |-> 2, sort |-> "title"],
   [category |-> "cat2"],
   [category |-> "news"],
   [category |-> ""]}

ListInit ==
  /\ posts = [n \in 1..MaxPosts |-> NoPost]
  /\ nextId = 1
  /\ req = [s \in AllSlots |-> IdleSlot]
  /\ actor = 1
  /\ connected = TRUE
  /\ fnIn = <<>>
  /\ fnOut = NoResult
  /\ browser = NewBrowser
  /\ boundary = NewBoundary("test")

ListCreate == \E b \in ListBodies(nextId) : CreatePost(1, Bearer("valid", "u1"), b)

ListNext ==
  \/ ListCreate
  \/ \E q \in ListQueries : GetPosts(1, q)

ListSpec == ListInit /\ [][ListNext]_vars

(***************************************************************************)
(* The field constraints: an author creates and updates posts with bodies  *)
(* at and over the limits of the schema                                    *)
(***************************************************************************)
\* one character more than the schema allows
LongTitle == [i \in 1..(MaxTitleLength + 1) |-> "a"]

\* as many characters, the last a space: the schema's limit once trimmed
PaddedTitle == [i \in 1..(MaxTitleLength + 1) |-> IF i > MaxTitleLength THEN " " ELSE "a"]

FieldCreateBodies ==
  {[title |-> TitleOne, content |-> "c"],
   [title |-> PaddedTitle, content |-> "c"],
   [title |-> TitleThree, content |-> "c", status |-> "archived"],
   [title |-> LongTitle, content |-> "c"],
   [title |-> TitleBlank, content |-> "c"],
   [title |-> TitleTwo, content |-> ""],
   [content |-> "c"],
   [title |-> TitleTwo, content |-> "c", category |-> "news"]}

FieldUpdateBodies ==
  {[title |-> LongTitle],
   [title |-> PaddedTitle],
   [title |-> <<>>],
   [title |-> TitleBlank],
   "$set" :> [title |-> <<>>],
   [content |-> ""],
   [status |-> "archived"],
   [title |-> <<>>, category |-> "news"]}

FieldNext ==
  \E s \in Slots :
    \/ \E b \in FieldCreateBodies : CreatePost(s, Bearer("valid", "u1"), b)
    \/ \E p \in RaceIdParams, b \in FieldUpdateBodies :
         UpdatePost(s, Bearer("valid", "u1"), p, b)
    \/ UpdatePostWrite(s)

FieldSpec == Init /\ [][FieldNext]_vars

(***************************************************************************)
(* The authentication gate: two clients send protected requests under      *)
(* every shape of Authorization header                                     *)
(***************************************************************************)
GateHeaders ==
  {NoHeader,
   [scheme |-> "Basic", token |-> Token("valid", "u1")],
   [scheme |-> "bearer", token |-> Token("valid", "u1")],
   [scheme |-> "Bearer", gap |-> 0, token |-> Token("valid", "u1")],
   [scheme |-> "Bearer", gap |-> 2, token |-> Token("valid", "u1")],
   Bearer("empty", ""), Bearer("malformed", ""),
   Bearer("badsig", "u1"), Bearer("expired", "u1"),
   Bearer("valid", "u1"), Bearer("valid", "u2")}

GateNext ==
  \E s \in RaceSlots :
    \/ \E h \in GateHeaders : CreatePost(s, h, [title |-> TitleOne, content |-> "c"])
    \/ \E h \in GateHeaders : DeletePost(s, h, OidParam(1))
    \/ DeletePostWrite(s)

GateSpec == Init /\ [][GateNext]_vars

(***************************************************************************)
(* The error handlers on the errors the store, the token library and the   *)
(* application raise, for anonymous and authenticated requests, in every   *)
(* NODE_ENV                                                                *)
(***************************************************************************)
\* an Error object: it carries a stack
Raised(e) == e @@ [stack |-> "Error at <anonymous>"]

NormalizerErrors ==
  {Raised(CastError), Raised(CategoryCastError),
   Raised(DuplicateKeyError(<<"a">>)),
   Raised([name |-> "MongoServerError", code |-> 11000, keyValue |-> EmptyBody,
           message |-> "E11000 duplicate key error"]),
   Raised([name |-> "MongoServerError", code |-> 11000,
           message |-> "E11000 duplicate key error"]),
   Raised([name |-> "ValidationError", errors |-> <<"Title is required">>,
           message |-> "Post validation failed: title: Title is required"]),
   Raised([name |-> "ValidationError",
           errors |-> <<"Title is required", "Content is required">>,
           message |-> "Post validation failed: title: Title is required, content: Content is required"]),
   Raised([name |-> "ValidationError", message |-> "Validation failed"]),
   Raised([name |-> "JsonWebTokenError", message |-> "invalid signature"]),
   Raised([name |-> "JsonWebTokenError", message |-> "jwt malformed"]),
   Raised([name |-> "TokenExpiredError", message |-> "jwt expired"]),
   Raised([name |-> "NotBeforeError", message |-> "jwt not active"]),
   Raised(AppError("Post not found", 404)),
   Raised(AppError("Not authorized to update this post", 403)),
   Raised(AppError("Title and content are required", 400)),
   Raised([name |-> "Error", message |-> "connect ECONNREFUSED 127.0.0.1:27017"]),
   Raised([name |-> "Error", message |-> ""]),
   Raised([name |-> "TypeError",
           message |-> "Cannot read properties of undefined"]),
   EmptyBody}

NormalizerRequests ==
  {[originalUrl |-> "/api/posts/1", method |-> "PUT", ip |-> "::1",
    user |-> TokenPayload("u1")],
   [originalUrl |-> "/api/posts", method |-> "GET", ip |-> "::1", user |-> NoUser]}

NodeEnvs == {"development", "production", "test"}

NormalizerInit ==
  /\ posts = [n \in 1..MaxId |-> NoPost]
  /\ nextId = 1
  /\ req = [s \in AllSlots |-> IdleSlot]
  /\ actor = 1
  /\ connected = TRUE
  /\ fnIn \in [err : NormalizerErrors, request : NormalizerRequests, env : NodeEnvs]
  /\ fnOut = NoResult
  /\ browser = NewBrowser
  /\ boundary = NewBoundary("test")

\* the error reaches the handler index.js mounts
CallErrorHandler ==
  /\ fnOut = NoResult
  /\ fnOut' = [fn |-> "errorHandler"] @@ errorHandler(fnIn.err, fnIn.request, fnIn.env)
  /\ UNCHANGED <<posts, nextId, req, actor, connected, fnIn, browser, boundary>>

\* the error reaches the handler app.js mounts
CallAppErrorMiddleware ==
  /\ fnOut = NoResult
  /\ fnOut' = [fn |-> "appErrorMiddleware"] @@ appErrorMiddleware(fnIn.err)
  /\ UNCHANGED <<posts, nextId, req, actor, connected, fnIn, browser, boundary>>

NormalizerNext == CallErrorHandler \/ CallAppErrorMiddleware

NormalizerSpec == NormalizerInit /\ [][NormalizerNext]_vars

(***************************************************************************)
(* The token utility: a caller verifies tokens of every condition, one     *)
(* after the other                                                         *)
(***************************************************************************)
UtilTokens ==
  {Token("valid", "u1"), Token("valid", "u2"), Token("expired", "u1"),
   Token("expired", "u2"), Token("badsig", "u1"), Token("badsig", "u2"),
   Token("malformed", ""), Token("empty", "")}

TokenInit ==
  /\ posts = [n \in 1..MaxId |-> NoPost]
  /\ nextId = 1
  /\ req = [s \in AllSlots |-> IdleSlot]
  /\ actor = 1
  /\ connected = TRUE
  /\ fnIn = <<>>
  /\ fnOut = [fn |-> "verifyToken", calls |-> {}]
  /\ browser = NewBrowser
  /\ boundary = NewBoundary("test")

CallVerifyToken(token) ==
  /\ fnOut' = [fnOut EXCEPT !.calls =
                 @ \cup {[token |-> token, result |-> verifyTokenUtil(token)]}]
  /\ UNCHANGED <<posts, nextId, req, actor, connected, fnIn, browser, boundary>>

TokenNext == \E token \in UtilTokens : CallVerifyToken(token)

TokenSpec == TokenInit /\ [][TokenNext]_vars

(***************************************************************************)
(* The reading time of every text of up to MaxLen characters, and of texts *)
(* of about DefaultWordsPerMinute words, at several rates                  *)
(***************************************************************************)
ReadingAlphabet == {"a", "B", " "}

\* n times the word 'word', joined by single spaces
Words(n) ==
  [i \in 1..(5 * n - 1) |-> IF i % 5 = 0 THEN " " ELSE "a"]

ReadingTexts ==
  UNION {[1..k -> ReadingAlphabet] : k \in 0..MaxLen}
    \cup {Words(DefaultWordsPerMinute - 1), Words(DefaultWordsPerMinute),
          Words(DefaultWordsPerMinute + 1), Words(2 * DefaultWordsPerMinute + 1)}

ReadingRates == {1, 2, 3}

ReadingInit ==
  /\ posts = [n \in 1..MaxId |-> NoPost]
  /\ nextId = 1
  /\ req = [s \in AllSlots |-> IdleSlot]
  /\ actor = 1
  /\ connected = TRUE
  /\ fnIn \in [text : ReadingTexts]
               \cup [text : ReadingTexts, wordsPerMinute : ReadingRates]
  /\ fnOut = NoResult
  /\ browser = NewBrowser
  /\ boundary = NewBoundary("test")

CallCalculateReadingTime ==
  /\ fnOut = NoResult
  /\ fnOut' = [fn |-> "calculateReadingTime", minutes |-> calculateReadingTime(fnIn)]
  /\ UNCHANGED <<posts, nextId, req, actor, connected, fnIn, browser, boundary>>

ReadingNext == CallCalculateReadingTime

ReadingSpec == ReadingInit /\ [][ReadingNext]_vars

(***************************************************************************)
(* The API wrapper in a browser: the application stores tokens, sends up   *)
(* to MaxRequests requests and receives what the server or the network     *)
(* makes of each                                                           *)
(***************************************************************************)
MaxRequests == 2

StoredTokens == {"t1", "t2", ""}

ClientResults ==
  {[response |-> [status |-> 200, data |-> [list |-> <<>>]]],
   [response |-> [status |-> 400, data |-> [error |-> "Title is required"]]],
   [response |-> [status |-> 400, data |-> NullBody]],
   [response |-> [status |-> 401, data |-> [error |-> "No token provided"]]],
   [response |-> [status |-> 401, data |-> NullBody]],
   [response |-> [status |-> 404, data |-> [error |-> "Post not found"]]],
   [response |-> [status |-> 503, data |-> EmptyBody]],
   [request |-> TRUE],
   [message |-> "Request aborted"]}

ClientNext ==
  \/ \E t \in StoredTokens : StoreToken(t)
  \/ Len(browser.requests) < MaxRequests /\ SendRequest
  \/ \E i \in 1..MaxRequests, result \in ClientResults : Settle(i, result)

ClientSpec == Init /\ [][ClientNext]_vars

(***************************************************************************)
(* The error boundary around descendants that throw: up to MaxThrows       *)
(* errors are caught on a page, and the page is left for the home page up  *)
(* to MaxPages times                                                       *)
(***************************************************************************)
MaxThrows == 3

MaxPages == 2

\* what a descendant throws: Error objects, a string, null
ThrownValues ==
  {[name |-> "Error", message |-> "Test error"],
   [name |-> "TypeError", message |-> "posts.map is not a function"],
   [name |-> "", message |-> "Failed to load"],
   NullValue}

Descendants == {"PostsList", "Button"}

BoundaryInit ==
  /\ posts = [n \in 1..MaxId |-> NoPost]
  /\ nextId = 1
  /\ req = [s \in AllSlots |-> IdleSlot]
  /\ actor = 1
  /\ connected = TRUE
  /\ fnIn = <<>>
  /\ fnOut = NoResult
  /\ browser = NewBrowser
  /\ boundary \in {NewBoundary(env) : env \in {"development", "production"}}

\* a descendant throws while it renders: React calls getDerivedStateFromError,
\* renders the boundary again and then calls componentDidCatch, whose setState
\* renders it once more
DescendantThrows(error, component) ==
  /\ boundary.rendered.view = "children"
  /\ LET derived == SetState(boundary.state, getDerivedStateFromError(error))
         caught  == SetState(derived,
                       componentDidCatch(error, [componentStack |-> "at " \o component]))
     IN boundary' = [boundary EXCEPT !.state = caught,
                                     !.rendered = render(caught, boundary.env),
                                     !.caught = @ + 1,
                                     !.escaped =
                                        IF \/ FallbackThrows(derived, boundary.env)
                                           \/ FallbackThrows(caught, boundary.env)
                                        THEN @ + 1 ELSE @]
  /\ UNCHANGED <<server, browser>>

\* the Try Again button of the fallback
ClickTryAgain ==
  /\ boundary.rendered.view = "fallback"
  /\ LET reset == SetState(boundary.state, handleReset)
     IN boundary' = [boundary EXCEPT !.state = reset,
                                     !.rendered = render(reset, boundary.env)]
  /\ UNCHANGED <<server, browser>>

\* the Go to Home button of the fallback: the document is replaced and the
\* application mounts anew
ClickGoHome ==
  /\ boundary.rendered.view = "fallback"
  /\ browser' = [browser EXCEPT !.location = "/"]
  /\ boundary' = [NewBoundary(boundary.env) EXCEPT !.page = boundary.page + 1]
  /\ UNCHANGED server

BoundaryNext ==
  \/ \E error \in ThrownValues, component \in Descendants :
       boundary.caught < MaxThrows /\ DescendantThrows(error, component)
  \/ ClickTryAgain
  \/ boundary.page < MaxPages /\ ClickGoHome

BoundarySpec == BoundaryInit /\ [][BoundaryNext]_vars

(***************************************************************************)
(* Every controller under every kind of store failure: a client sends      *)
(* requests whose store operations succeed, fail validation, fail a cast,  *)
(* hit the unique index, or find the database unreachable.  A store        *)
(* operation that was started settles (mongoose resolves it, rejects it or *)
(* times it out), so a suspended controller is resumed: weak fairness on   *)
(* the two resuming steps.                                                 *)
(***************************************************************************)
\* the connection to the database is lost
Disconnect ==
  /\ connected
  /\ connected' = FALSE
  /\ UNCHANGED <<posts, nextId, req, actor, fnIn, fnOut, browser, boundary>>

\* the connection is back
Reconnect ==
  /\ ~connected
  /\ connected' = TRUE
  /\ UNCHANGED <<posts, nextId, req, actor, fnIn, fnOut, browser, boundary>>

OutcomeQueries == {EmptyBody, [category |-> "news"]}

OutcomeCreateBodies ==
  {[title |-> TitleOne, content |-> "c"], [title |-> TitleOne],
   [title |-> TitleOne, content |-> "c", category |-> "news"]}

OutcomeUpdateBodies ==
  {[title |-> TitleThree], [status |-> "archived"], [category |-> "news"]}

OutcomeIdParams == {OidParam(1), TextParam("invalid-id-format")}

OutcomeNext ==
  \/ Disconnect
  \/ Reconnect
  \/ \E s \in Slots :
       \/ \E q \in OutcomeQueries : GetPosts(s, q)
       \/ \E p \in OutcomeIdParams : GetPostById(s, p)
       \/ GetPostBySlug(s, SlugParam(TitleOne))
       \/ \E b \in OutcomeCreateBodies : CreatePost(s, Bearer("valid", "u1"), b)
       \/ \E p \in OutcomeIdParams, b \in OutcomeUpdateBodies :
            UpdatePost(s, Bearer("valid", "u1"), p, b)
       \/ UpdatePostWrite(s)
       \/ \E p \in OutcomeIdParams : DeletePost(s, Bearer("valid", "u1"), p)
       \/ DeletePostWrite(s)

OutcomeSpec ==
  /\ Init
  /\ [][OutcomeNext]_vars
  /\ \A s \in Slots : WF_vars(UpdatePostWrite(s)) /\ WF_vars(DeletePostWrite(s))

(***************************************************************************)
(* Properties                                                              *)
(***************************************************************************)
\* the header is 'Bearer <token>' with a token signed for a user and not expired
HoldsValidToken(h) ==
  h.scheme = "Bearer" /\ Gap(h) = 1 /\ h.token.kind = "valid"

IsCaller(h, u) == HoldsValidToken(h) /\ h.token.id = u

Live(n) == posts[n] # NoPost

\* the request handled by the step just taken
Handled == req'[actor']

\* C1: a post comes into existence only through a create request that passed
\* the authentication gate, and a stored post changes or disappears only
\* through an update or delete request for that post whose authenticated
\* identity is the post's author; any other request leaves every post as it was.
C1_OnlyAuthorMutates ==
  [][\A n \in 1..MaxId :
       /\ (posts[n] = NoPost /\ posts'[n] # NoPost) =>
            /\ Handled.method = "POST"
            /\ HoldsValidToken(Handled.header)
       /\ (posts[n] # NoPost /\ posts'[n] # posts[n]) =>
            /\ Handled.method \in {"PUT", "DELETE"}
            /\ Handled.param = OidParam(n)
            /\ IsCaller(Handled.header, posts[n].author)]_vars

\* an author's update that changed the stored post
C1_Witness ==
  \E s \in Slots :
    /\ req[s].pc = "done" /\ req[s].method = "PUT" /\ req[s].status = 200
    /\ Live(req[s].param.n)
    /\ posts[req[s].param.n] # req[s].found

\* C2 (as claimed): the stored author of a post is the same in every later
\* state, whatever the body of an update request.
C2_AuthorNeverChanges ==
  [][\A n \in 1..MaxId :
       (posts[n] # NoPost /\ posts'[n] # NoPost) =>
         posts'[n].author = posts[n].author]_vars

\* C3: a POST, PUT or DELETE request without an Authorization header, with a
\* header of another scheme, or with a token that fails verification is
\* answered 401 with an error field, and its controller is not invoked.
C3_GateStopsStrangers ==
  \A s \in AllSlots :
    (req[s].method \in {"POST", "PUT", "DELETE"} /\ ~HoldsValidToken(req[s].header)) =>
      /\ req[s].pc = "done"
      /\ req[s].status = 401
      /\ Has(req[s].resBody, "error")
      /\ ~req[s].invoked

\* a delete of a stored post with an expired token, answered 401
C3_Witness ==
  \E s \in Slots :
    /\ req[s].method = "DELETE" /\ req[s].header = Bearer("expired", "u1")
    /\ req[s].param.kind = "oid" /\ Live(req[s].param.n)
    /\ posts[req[s].param.n].author = "u1"
    /\ req[s].status = 401

\* C4: for PUT and DELETE the status is that of the first failing check in
\* the order authentication (401), identifier syntax (400), existence (404),
\* ownership (403 with the operation's message); 200 only when all four pass.
C4_CheckOrder ==
  \A s \in AllSlots :
    LET r     == req[s]
        verb  == IF r.method = "PUT" THEN "update" ELSE "delete"
        valid == r.param.kind = "oid"
    IN (r.method \in {"PUT", "DELETE"} /\ r.pc = "done") =>
         /\ ~HoldsValidToken(r.header) => r.status = 401
         /\ (HoldsValidToken(r.header) /\ ~valid) => r.status = 400
         /\ (HoldsValidToken(r.header) /\ valid /\ r.found = NoPost) => r.status = 404
         /\ (HoldsValidToken(r.header) /\ valid /\ r.found # NoPost
               /\ r.found.author # r.header.token.id) =>
              /\ r.status = 403
              /\ r.resBody = [error |-> "Not authorized to " \o verb \o " this post"]
         /\ r.status = 200 =>
              /\ HoldsValidToken(r.header) /\ valid /\ r.found # NoPost
              /\ r.found.author = r.header.token.id

\* a non-author's delete of a stored post, answered 403
C4_Witness ==
  \E s \in Slots :
    /\ req[s].method = "DELETE" /\ req[s].status = 403
    /\ Live(req[s].param.n)

\* C5: a create answered 201 stores a post whose author is the authenticated
\* identity, whose status is draft and whose views is 0, whatever author,
\* status or views the body carries; title, content and category are the body's.
C5_CreateForcesAuthorAndDefaults ==
  \A s \in Slots :
    (req[s].method = "POST" /\ req[s].status = 201) =>
      LET b      == req[s].body
          stored == posts[req[s].resBody._id]
      IN /\ stored # NoPost
         /\ stored.author = req[s].header.token.id
         /\ stored.status = "draft"
         /\ stored.views = 0
         /\ stored.title = trim(b.title)
         /\ stored.content = b.content
         /\ stored.category = IF Has(b, "category") THEN b.category ELSE "none"
         /\ req[s].resBody = ToJson(req[s].resBody._id, stored)

\* a create by u1 whose body names another author, status and views
C5_Witness ==
  \E s \in Slots :
    /\ req[s].method = "POST" /\ req[s].status = 201
    /\ req[s].header = Bearer("valid", "u1")
    /\ Has(req[s].body, "author") /\ req[s].body.author = "u2"
    /\ req[s].body.status = "published" /\ req[s].body.views = 7

\* C6: an authenticated create without a title (missing or empty) is answered
\* 400 'Title is required'; with a title but without content, 400 'Content is
\* required'; in both cases the store is left as it was.
C6_RequiredFields ==
  [][LET r       == Handled
         noTitle == ~Has(r.body, "title") \/ r.body.title = <<>>
         noContent == ~Has(r.body, "content") \/ r.body.content = ""
     IN (r.method = "POST" /\ HoldsValidToken(r.header)) =>
          /\ noTitle =>
               /\ r.status = 400 /\ r.resBody = [error |-> "Title is required"]
               /\ posts' = posts
          /\ (~noTitle /\ noContent) =>
               /\ r.status = 400 /\ r.resBody = [error |-> "Content is required"]
               /\ posts' = posts]_vars

\* an authenticated create with neither title nor content, answered for the title
C6_Witness ==
  \E s \in Slots :
    /\ req[s].method = "POST" /\ HoldsValidToken(req[s].header)
    /\ req[s].body = EmptyBody
    /\ req[s].status = 400 /\ req[s].resBody = [error |-> "Title is required"]

\* [a-z0-9-] only, no hyphen at either end, no two hyphens in a row
WellFormedSlug(v) ==
  /\ \A i \in 1..Len(v) : v[i] \in {"a", "b", "1", "-"}
  /\ v # <<>> => (v[1] # "-" /\ v[Len(v)] # "-")
  /\ \A i \in 1..(Len(v) - 1) : ~(v[i] = "-" /\ v[i + 1] = "-")

\* C7 (as claimed): for every title, generateSlug gives a lower-case string
\* over [a-z0-9-] with no leading, trailing or doubled hyphen, and gives ''
\* for ''.
C7_SlugWellFormed ==
  fnOut.fn = "generateSlug" =>
    /\ WellFormedSlug(fnOut.slug)
    /\ fnIn = <<>> => fnOut.slug = <<>>

\* C8: the slug of a post created from a title is generateSlug of that title.
C8_CreatedSlugIsGenerateSlug ==
  \A s \in AllSlots :
    (req[s].method = "POST" /\ req[s].status = 201) =>
      /\ req[s].resBody.slug = generateSlug(req[s].body.title)
      /\ posts[req[s].resBody._id].slug = generateSlug(req[s].body.title)

\* the title 'a B' was posted and stored under the slug 'a-b'
C8_Witness ==
  /\ fnIn = <<"a", " ", "B">>
  /\ req[1].method = "POST" /\ req[1].status = 201
  /\ req[1].resBody.slug = <<"a", "-", "b">>

\* C9: no two stored posts have the same slug.
C9_SlugUnique ==
  \A m, n \in 1..MaxId :
    (m # n /\ Live(m) /\ Live(n)) => posts[m].slug # posts[n].slug

\* two posts are stored and a write that would have duplicated a slug was refused
C9_Witness ==
  /\ \E m, n \in 1..MaxId : m # n /\ Live(m) /\ Live(n)
  /\ \E s \in RaceSlots : Has(req[s].err, "code") /\ req[s].err.code = 11000

\* C10 (as claimed): a create whose slug is already held by a stored post is
\* answered 400 '<field> already exists', and the store is left as it was.
C10_DuplicateAnswered400 ==
  [][LET r == Handled
     IN (/\ r.method = "POST" /\ HoldsValidToken(r.header)
         /\ Has(r.body, "title") /\ Has(r.body, "content")
         /\ trim(r.body.title) # <<>> /\ r.body.content # ""
         /\ \E n \in 1..MaxId :
              posts[n] # NoPost /\ posts[n].slug = generateSlug(r.body.title)) =>
          /\ r.status = 400
          /\ r.resBody.error = "slug already exists"
          /\ posts' = posts]_vars

\* the post n as a response carries it: its fields, its _id, and the author
\* replaced by that user's _id, username and email
Expanded(n) ==
  [f \in PostFields \cup {"_id"} |->
     IF f = "_id" THEN n
     ELSE IF f = "author"
          THEN [_id |-> posts[n].author,
                username |-> UserProfile(posts[n].author).username,
                email |-> UserProfile(posts[n].author).email]
          ELSE posts[n][f]]

\* C11 (as claimed): GET /<id> is answered 400 iff the identifier is not
\* well-formed, 404 iff it is well-formed and no post has it, and otherwise
\* 200 with that post, author expanded; GET /slug/<s> is answered 200 with the
\* post whose slug is exactly s, and 404 iff no post has the slug s; a path
\* /slug/<s> is routed to the slug lookup.
C11_GetByIdAndBySlug ==
  [][\A p \in ReadPaths :
       GetPath(1, p) =>
         LET r == Handled
         IN /\ (Len(p) = 1) =>
                 LET wellFormed == p[1].kind = "oid"
                     stored     == wellFormed /\ p[1].n \in DOMAIN posts
                                     /\ posts[p[1].n] # NoPost
                 IN /\ r.status = 400 <=> ~wellFormed
                    /\ r.status = 404 <=> (wellFormed /\ ~stored)
                    /\ stored => (r.status = 200 /\ r.resBody = Expanded(p[1].n))
            /\ (Len(p) = 2 /\ p[1] = TextParam("slug")) =>
                 LET exact == {n \in DOMAIN posts :
                                 /\ posts[n] # NoPost
                                 /\ p[2].kind = "slug"
                                 /\ posts[n].slug = p[2].v}
                 IN /\ r.route = "/slug/:slug"
                    /\ r.status = 404 <=> exact = {}
                    /\ exact # {} =>
                         /\ r.status = 200
                         /\ \E n \in exact : r.resBody = Expanded(n)]_vars

\* post n was created and has been deleted
Deleted(n) == n < nextId /\ posts[n] = NoPost

\* C12: a delete answered 200 leaves its post out of the store; from then on
\* the post stays out (no identifier is given twice), every get-by-id for it
\* and every update or delete for it that passes the authentication gate is
\* answered 404, and no list contains it.
C12_DeletedStaysGone ==
  [][LET r == Handled
     IN /\ (r.method = "DELETE" /\ r.status = 200) => posts'[r.param.n] = NoPost
        /\ \A n \in 1..MaxId :
             Deleted(n) =>
               /\ posts'[n] = NoPost
               /\ (r.route = "/:id" /\ r.param = OidParam(n) /\ r.invoked) =>
                    (r.pc = "done" /\ r.status = 404)
               /\ (r.method = "GET" /\ r.route = "/" /\ r.status = 200) =>
                    \A i \in 1..Len(r.resBody.list) : r.resBody.list[i]._id # n]_vars

\* the author's update of a post that was deleted, answered 404, while the
\* other post is still stored
C12_Witness ==
  \E n \in 1..MaxId :
    /\ Deleted(n)
    /\ \E m \in 1..MaxId : Live(m)
    /\ req[1].method = "PUT" /\ req[1].param = OidParam(n)
    /\ HoldsValidToken(req[1].header) /\ req[1].status = 404

\* the stored posts a list request with query q is about: those whose
\* category is the filter's, all of them without a filter
Matching(q) ==
  {n \in DOMAIN posts :
     /\ posts[n] # NoPost
     /\ Has(q, "category") => posts[n].category = q.category}

\* post m comes before post n in the order the sort parameter names
SortsBefore(sort, m, n) ==
  CASE sort = "-createdAt" -> m > n
    [] sort = "createdAt"  -> m < n
    [] sort = "title"      -> LexLess(posts[m].title, posts[n].title)
    [] sort = "-title"     -> LexLess(posts[n].title, posts[m].title)

\* the position (from 0) of post n among the posts of M in sort order
Position(sort, M, n) == Cardinality({m \in M : SortsBefore(sort, m, n)})

\* C13 (as claimed): for a list request with page >= 1 and limit >= 0
\* (defaults 1 and 10), any sort, and no category or the identifier of a
\* category, the answer is 200 with exactly the posts at positions
\* [(page-1)*limit, page*limit) of the matching posts in sort order; with 11
\* matching posts, page 2 at limit 10 does not start with the post page 1
\* starts with.
C13_ListIsTheSlice ==
  [][LET r     == Handled
         q     == r.query
         page  == IF Has(q, "page") THEN q.page ELSE 1
         limit == IF Has(q, "limit") THEN q.limit ELSE 10
         sort  == IF Has(q, "sort") THEN q.sort ELSE "-createdAt"
         M     == Matching(q)
         first == (page - 1) * limit
         rest  == IF Cardinality(M) > first THEN Cardinality(M) - first ELSE 0
     IN (/\ r.method = "GET" /\ r.route = "/"
         /\ Has(q, "category") => q.category \in CategoryIds) =>
          /\ r.status = 200
          /\ Len(r.resBody.list) = IF rest < limit THEN rest ELSE limit
          /\ \A i \in 1..Len(r.resBody.list) :
               /\ r.resBody.list[i]._id \in M
               /\ Position(sort, M, r.resBody.list[i]._id) = first + i - 1
          /\ (page = 2 /\ limit = 10 /\ Cardinality(M) >= 11) =>
               /\ r.resBody.list # <<>>
               /\ Position(sort, M, r.resBody.list[1]._id) # 0]_vars

\* C14 (as claimed): a list request with category=X is answered with posts of
\* category X only, and with all of them when they fit the page; a list
\* request without the parameter is answered from all stored posts.
C14_CategoryFilter ==
  [][LET r     == Handled
         q     == r.query
         page  == IF Has(q, "page") THEN q.page ELSE 1
         limit == IF Has(q, "limit") THEN q.limit ELSE 10
         M     == Matching(q)
     IN (r.method = "GET" /\ r.route = "/") =>
          /\ r.status = 200
          /\ \A i \in 1..Len(r.resBody.list) : r.resBody.list[i]._id \in M
          /\ (page = 1 /\ Cardinality(M) <= limit) =>
               M = {r.resBody.list[i]._id : i \in 1..Len(r.resBody.list)}]_vars

\* C15 (as claimed): an update answered 200 sets the fields its body names,
\* author aside, to the values the body gives (compared as the schema keeps
\* them: a title trimmed, a slug in lower case), leaves every other field of
\* the post (its author among them) and every other post as they were, and
\* answers with the post as stored.
C15_UpdateSetsNamedFieldsOnly ==
  [][LET r     == Handled
         n     == r.param.n
         named == DOMAIN r.body \ {"author"}
     IN (r.method = "PUT" /\ r.status = 200 /\ req[actor'].pc = "pending") =>
          /\ posts'[n] # NoPost
          /\ \A f \in named \cap PostFields :
               posts'[n][f] = SchemaSet(f, r.body[f])
          /\ \A f \in PostFields \ named : posts'[n][f] = posts[n][f]
          /\ \A m \in DOMAIN posts \ {n} : posts'[m] = posts[m]
          /\ r.resBody = ToJson(n, posts'[n])]_vars

\* the value a body gives a field, at its top level or in its $set
Names(b, f) == Has(b, f) \/ (Has(b, "$set") /\ Has(b["$set"], f))

Given(b, f) == IF Has(b, f) THEN b[f] ELSE b["$set"][f]

\* every value of the body is of the type of its path
WellTyped(b) == Names(b, "category") => Given(b, "category") \in CategoryIds

BadTitle(t) == trim(t) = <<>> \/ Len(trim(t)) > MaxTitleLength

C17_ReadsChangeNothing ==
  [][Handled.method = "GET" => posts' = posts]_vars

\* a post whose views were set to 7 was read by its id, answered 200 with
\* views 7, and still has views 7
C17_Witness ==
  \E n \in 1..MaxId :
    /\ Live(n) /\ posts[n].views = 7
    /\ req[1].method = "GET" /\ req[1].route = "/:id" /\ req[1].param = OidParam(n)
    /\ req[1].status = 200 /\ req[1].resBody.views = 7

\* the header starts with 'Bearer '
StartsWithBearer(h) == h.scheme = "Bearer" /\ Gap(h) >= 1

\* C18: for a request to a protected route the gate does exactly one of three
\* things: (a) no header, or a header that does not start with 'Bearer ': 401
\* 'No token provided', the controller not invoked; (b) such a header whose
\* token is not a token signed with the secret and unexpired (bad signature,
\* expired, malformed, empty): 401 'Invalid or expired token', the controller
\* not invoked; (c) the token verifies: its payload is the request's user,
\* the controller is invoked and the response is not the gate's.
C18_GateOutcomes ==
  \A s \in AllSlots :
    LET r == req[s]
        a == ~StartsWithBearer(r.header)
        c == HoldsValidToken(r.header)
    IN Protected(r.method) =>
         /\ a => /\ r.status = 401 /\ r.resBody = [error |-> "No token provided"]
                 /\ ~r.invoked /\ r.user = NoUser /\ r.pc = "done"
         /\ (~a /\ ~c) =>
                 /\ r.status = 401 /\ r.resBody = [error |-> "Invalid or expired token"]
                 /\ ~r.invoked /\ r.user = NoUser /\ r.pc = "done"
         /\ c => /\ r.invoked /\ r.user = [id |-> r.header.token.id]
                 /\ r.status # 401

\* one client was stopped for an expired token, the other for a header with
\* two spaces before a valid token, while a post is stored
C18_Witness ==
  /\ \E n \in 1..MaxId : Live(n)
  /\ req[1].header = Bearer("expired", "u1") /\ req[1].status = 401
  /\ Has(req[2].header, "gap") /\ req[2].header.gap = 2 /\ req[2].status = 401

\* what the gate did with the request of slot s
GateOutcome(s) ==
  [invoked |-> req[s].invoked, user |-> req[s].user,
   status  |-> IF req[s].invoked THEN 0 ELSE req[s].status,
   body    |-> IF req[s].invoked THEN NoBody ELSE req[s].resBody]

\* C19: two requests to protected routes that carry the same Authorization
\* header get the same outcome from the gate, whatever was handled before
\* each of them; a request without a valid token is stopped with 401 also
\* when the request handled before it was authenticated.
C19_GateIsStateless ==
  \A s, t \in AllSlots :
    (Protected(req[s].method) /\ Protected(req[t].method)) =>
      /\ req[s].header = req[t].header => GateOutcome(s) = GateOutcome(t)
      /\ (req[s].invoked /\ ~HoldsValidToken(req[t].header)) =>
           (~req[t].invoked /\ req[t].status = 401)

\* a request without a header was stopped right after an authenticated
\* request had created a post
C19_Witness ==
  /\ actor = 2
  /\ req[1].method = "POST" /\ req[1].status = 201 /\ req[1].invoked
  /\ req[2].method = "DELETE" /\ req[2].header = NoHeader /\ req[2].status = 401
  /\ Live(1)

\* C20 (as claimed): every response with a status of 400 or more, whether
\* sent by a posts controller, by the authentication gate or by the error
\* middleware, has a body with success: false and an error field.
C20_ErrorEnvelope ==
  \A s \in AllSlots :
    req[s].status >= 400 =>
      /\ Has(req[s].resBody, "success") /\ req[s].resBody.success = FALSE
      /\ Has(req[s].resBody, "error")

\* the events of the handler's run that are log entries, and its responses
LogEntries == SelectSeq(fnOut.events, LAMBDA e : e.kind = "log")
Responses == SelectSeq(fnOut.events, LAMBDA e : e.kind = "response")

Handles == fnOut.fn = "errorHandler"

\* the handler answered with this status and this error message
Mapped(status, message) ==
  /\ ~fnOut.thrown
  /\ Len(Responses) = 1
  /\ Responses[1].status = status
  /\ Has(Responses[1].body, "error") /\ Responses[1].body.error = message

CarriesStatus(err) == Has(err, "statusCode") /\ err.statusCode # 0

Classified(err) ==
  \/ ErrName(err) \in {"CastError", "ValidationError", "JsonWebTokenError",
                       "TokenExpiredError"}
  \/ IsDuplicateKey(err)

\* C21: errorHandler answers a store cast error with 404 'Resource not
\* found', a duplicate-key error on a field with 400 '<field> already
\* exists', a store validation error with 400 'Validation failed: ' and its
\* field messages joined by ', ', a token-signature error with 401 'Invalid
\* token', a token-expiry error with 401 'Token expired', and an application
\* error that carries a status with that status and its own message.
C21_NormalizerMapping ==
  Handles =>
    LET err == fnIn.err
    IN /\ ErrName(err) = "CastError" => Mapped(404, "Resource not found")
       /\ (IsDuplicateKey(err) /\ Has(err, "keyValue") /\ Has(err.keyValue, "slug")) =>
            Mapped(400, "slug already exists")
       /\ (ErrName(err) = "ValidationError" /\ Has(err, "errors")) =>
            /\ Len(err.errors) = 1 => Mapped(400, "Validation failed: " \o err.errors[1])
            /\ Len(err.errors) = 2 =>
                 Mapped(400, "Validation failed: " \o err.errors[1] \o ", "
                               \o err.errors[2])
       /\ ErrName(err) = "JsonWebTokenError" => Mapped(401, "Invalid token")
       /\ ErrName(err) = "TokenExpiredError" => Mapped(401, "Token expired")
       /\ (CarriesStatus(err) /\ ~Classified(err)) => Mapped(err.statusCode, err.message)

\* every class of C21 has been answered: here a cast error, by 404
C21_Witness ==
  /\ Handles
  /\ ErrName(fnIn.err) = "CastError"
  /\ Mapped(404, "Resource not found")

\* C22 (as claimed): an error that is no cast, duplicate-key, validation or
\* token error and carries no status is answered, by errorHandler and by the
\* error middleware of app.js, with 500 and the message 'Internal Server
\* Error'.
C22_UnclassifiedIs500 ==
  (fnOut # NoResult /\ ~Classified(fnIn.err) /\ ~CarriesStatus(fnIn.err)) =>
    IF Handles THEN Mapped(500, "Internal Server Error")
    ELSE fnOut.status = 500 /\ fnOut.body.error = "Internal Server Error"

\* C23 (as claimed): whatever error errorHandler is handed, it returns
\* without throwing, having sent exactly one JSON response with a status.
C23_NormalizerNeverThrows ==
  Handles =>
    /\ ~fnOut.thrown
    /\ Len(Responses) = 1
    /\ Responses[1].status \in 100..599
    /\ Has(Responses[1].body, "success")

\* C24 (as claimed): errorHandler emits exactly one log entry, before the
\* response, and the entry's message and status are those of the response
\* that follows.
C24_LogMatchesResponse ==
  Handles =>
    /\ Len(LogEntries) = 1
    /\ fnOut.events[1].kind = "log"
    /\ ~fnOut.thrown =>
         /\ Len(Responses) = 1
         /\ LogEntries[1].statusCode = Responses[1].status
         /\ IF Has(Responses[1].body, "error")
            THEN LogEntries[1].message = [is |-> Responses[1].body.error]
            ELSE LogEntries[1].message = [undefined |-> TRUE]

\* what is wrong with a token that fails verification
Cause(token) == token.kind

\* C25 (as claimed): the token utility's verifyToken returns the payload of
\* a valid token, and for an expired, a tampered and a malformed token it
\* raises three different errors.
C25_VerifierTellsCausesApart ==
  \A c \in fnOut.calls :
    /\ c.token.kind = "valid" =>
         c.result = [ok |-> TRUE, payload |-> TokenPayload(c.token.id)]
    /\ c.token.kind # "valid" => ~c.result.ok
    /\ \A d \in fnOut.calls :
         ({Cause(c.token), Cause(d.token)} \subseteq {"expired", "badsig", "malformed"}
            /\ Cause(c.token) # Cause(d.token)) =>
           c.result.error # d.result.error

\* the number of whitespace-separated words of a text: the places where a
\* word starts
WordCount(text) ==
  Cardinality({i \in 1..Len(text) : ~IsSpace(text[i]) /\ (i = 1 \/ IsSpace(text[i - 1]))})

\* C26 (as claimed): calculateReadingTime returns the number of words of the
\* text divided by the rate (200 when none is given), rounded up, and 0 for a
\* text without words.
C26_ReadingTime ==
  fnOut # NoResult =>
    LET n == WordCount(fnIn.text)
        w == IF Has(fnIn, "wordsPerMinute") THEN fnIn.wordsPerMinute ELSE 200
    IN /\ n = 0 => fnOut.minutes = 0
       /\ n > 0 => /\ fnOut.minutes * w >= n
                   /\ (fnOut.minutes - 1) * w < n

\* C29 (as claimed): with an update and a delete of one post, or two deletes
\* of it, in flight together, an update whose write finds the post gone is
\* answered 404, an update answered 200 carries the updated post, and a delete
\* whose write finds the post gone is not answered 200.
C29_RaceOnOnePost ==
  [][\A s \in RaceSlots :
       LET n == req[s].param.n
       IN /\ UpdatePostWrite(s) =>
               /\ posts[n] = NoPost => req'[s].status = 404
               /\ req'[s].status = 200 =>
                    /\ posts[n] # NoPost
                    /\ req'[s].resBody = ToJson(n, posts'[n])
          /\ DeletePostWrite(s) =>
               (req'[s].status = 200 => posts[n] # NoPost)]_vars

\* the wrapper finds a token in local storage
TokenStored == browser.token # NoStoredToken /\ browser.token.is # ""

\* C27: a request leaves with 'Authorization: Bearer <token>' iff a token is
\* in local storage when it is sent; a response of status 401 removes the
\* stored token and sets the location to /login, after which local storage
\* holds no token until one is stored again; every error response is
\* rejected to the caller.
C27_ClientToken ==
  [][/\ SendRequest =>
          LET sent == browser'.requests[Len(browser'.requests)]
          IN IF TokenStored
             THEN sent.authorization = [is |-> "Bearer " \o browser.token.is]
             ELSE sent.authorization = NoAuthorization
     /\ \A i \in 1..Len(browser.requests), result \in ClientResults :
          Settle(i, result) =>
            /\ (Has(result, "response") /\ result.response.status = 401) =>
                 /\ browser'.token = NoStoredToken
                 /\ browser'.location = "/login"
            /\ ~IsSuccess(result) =>
                 browser'.requests[i].outcome.settled = "rejected"
     /\ (browser.token = NoStoredToken /\ browser'.token # NoStoredToken) =>
          \E t \in StoredTokens : StoreToken(t)]_vars

\* a request that carried a token was answered 401, and a request sent from
\* the login page after it left without the header
C27_Witness ==
  \E i, j \in 1..Len(browser.requests) :
    /\ i < j
    /\ browser.requests[i].authorization = [is |-> "Bearer t1"]
    /\ browser.requests[i].outcome.settled = "rejected"
    /\ browser.requests[i].outcome.status = 401
    /\ browser.requests[j].sentFrom = "/login"
    /\ browser.requests[j].authorization = NoAuthorization

\* C28: the boundary shows its children iff hasError is false and the
\* fallback iff it is true; hasError starts false, becomes true exactly when a
\* descendant throws while rendering, and goes back to false on the same page
\* only by handleReset, which also clears error and errorInfo; no error leaves
\* the boundary upwards.
C28_Boundary ==
  /\ [](/\ boundary.rendered.view = "children" <=> ~boundary.state.hasError
        /\ boundary.rendered.view = "fallback" <=> boundary.state.hasError
        /\ boundary.caught = 0 => ~boundary.state.hasError
        /\ boundary.escaped = 0)
  /\ [][/\ (~boundary.state.hasError /\ boundary'.state.hasError) <=>
             \E error \in ThrownValues, component \in Descendants :
               DescendantThrows(error, component)
        /\ (boundary.state.hasError /\ ~boundary'.state.hasError
              /\ boundary'.page = boundary.page) =>
             /\ ClickTryAgain
             /\ boundary'.state.error = NullValue
             /\ boundary'.state.errorInfo = NullValue]_vars

\* two errors were caught on one page and Try Again was pressed after each
C28_Witness ==
  /\ boundary.page = 1
  /\ boundary.caught = 2
  /\ ~boundary.state.hasError
  /\ boundary.rendered.view = "children"

\* C30: a controller that was invoked ends, and when it has ended it has
\* either sent exactly one response or called next(error) exactly once, not
\* both and not neither, whatever its store operations did; while it is
\* suspended at a store operation it has done neither.
C30_ExactlyOneOutcome ==
  /\ [](\A s \in Slots :
          req[s].invoked =>
            /\ req[s].pc = "done" => req[s].sent + req[s].forwarded = 1
            /\ req[s].pc = "pending" => req[s].sent + req[s].forwarded = 0
            /\ req[s].forwarded = 1 <=> req[s].err # NoErr)
  /\ \A s \in Slots : (req[s].pc = "pending") ~> (req[s].pc = "done")

\* an update passed its checks, found the database gone at its write and was
\* forwarded without a response of its own
C30_Witness ==
  /\ req[1].method = "PUT" /\ req[1].pc = "done" /\ req[1].invoked
  /\ req[1].found # NoPost
  /\ req[1].err = StoreUnavailable
  /\ req[1].sent = 0 /\ req[1].forwarded = 1

====
